---- MODULE Spec2Model ----
(***************************************************************************)
(* giftwrap: the packaging context (giftwrap/packaging_context.py) and the *)
(* symlink rule (giftwrap/rules/symlink_rule.py).                          *)
(*                                                                         *)
(* Text is modelled as TLA+ strings, character by character: paths, file   *)
(* contents and shell commands are built and taken apart with the string   *)
(* operations the Python code uses (join, dirname, lstrip, split, strip).  *)
(* The file system is a set of maps keyed by absolute path.                *)
(***************************************************************************)
EXTENDS Integers, Sequences, FiniteSets, TLC

(***************************************************************************)
(* Bounds of the model.                                                    *)
(***************************************************************************)
\* Longest rule list of a package description.
MaxRules == 3
\* Most direct calls of the context's path operations on one context.
MaxCalls == 2

(***************************************************************************)
(* Python string operations.                                               *)
(***************************************************************************)
Char(s, i) == SubSeq(s, i, i)

StartsWith(s, p) == Len(s) >= Len(p) /\ SubSeq(s, 1, Len(p)) = p

EndsWith(s, p) == Len(s) >= Len(p) /\ SubSeq(s, Len(s) - Len(p) + 1, Len(s)) = p

\* s[n:]
From(s, n) == SubSeq(s, n + 1, Len(s))

\* The characters str.strip() removes (string.whitespace); the last string
\* of the set holds the vertical tab, 0x0b, which has no escape.
IsSpace(c) == c \in {" ", "\n", "\t", "\r", "\f", ""}

\* s.lstrip(c) for a single character c
RECURSIVE LStripChar(_, _)
LStripChar(s, c) ==
    IF Len(s) > 0 /\ Char(s, 1) = c THEN LStripChar(From(s, 1), c) ELSE s

\* s.rstrip(c) for a single character c
RECURSIVE RStripChar(_, _)
RStripChar(s, c) ==
    IF Len(s) > 0 /\ Char(s, Len(s)) = c
    THEN RStripChar(SubSeq(s, 1, Len(s) - 1), c) ELSE s

RECURSIVE LStripSpace(_)
LStripSpace(s) ==
    IF Len(s) > 0 /\ IsSpace(Char(s, 1)) THEN LStripSpace(From(s, 1)) ELSE s

RECURSIVE RStripSpace(_)
RStripSpace(s) ==
    IF Len(s) > 0 /\ IsSpace(Char(s, Len(s)))
    THEN RStripSpace(SubSeq(s, 1, Len(s) - 1)) ELSE s

\* s.strip()
Strip(s) == RStripSpace(LStripSpace(s))

\* s.find(c): the first position of character c in s, 0 when absent (1-based)
RECURSIVE FindFrom(_, _, _)
FindFrom(s, c, i) ==
    IF i > Len(s) THEN 0
    ELSE IF Char(s, i) = c THEN i ELSE FindFrom(s, c, i + 1)

\* s.rfind(c): the last position of character c in s, 0 when absent (1-based)
RECURSIVE RFindFrom(_, _, _)
RFindFrom(s, c, i) ==
    IF i = 0 THEN 0
    ELSE IF Char(s, i) = c THEN i ELSE RFindFrom(s, c, i - 1)

\* s.split(c): the pieces of s between occurrences of c, empty pieces kept
RECURSIVE Split(_, _)
Split(s, c) ==
    LET i == FindFrom(s, c, 1)
    IN  IF i = 0 THEN <<s>>
        ELSE <<SubSeq(s, 1, i - 1)>> \o Split(From(s, i), c)

\* sep.join(items)
RECURSIVE JoinStr(_, _)
JoinStr(items, sep) ==
    IF Len(items) = 0 THEN ""
    ELSE IF Len(items) = 1 THEN items[1]
    ELSE items[1] \o sep \o JoinStr(Tail(items), sep)

(***************************************************************************)
(* os.path operations (posixpath).                                         *)
(***************************************************************************)
\* The working directory of the process.
Cwd == "/work"

PathJoin(a, b) ==
    IF StartsWith(b, "/") THEN b
    ELSE IF a = "" \/ EndsWith(a, "/") THEN a \o b
    ELSE a \o "/" \o b

Dirname(p) ==
    LET head == SubSeq(p, 1, RFindFrom(p, "/", Len(p)))
    IN  IF head # "" /\ LStripChar(head, "/") # "" THEN RStripChar(head, "/")
        ELSE head

Basename(p) == From(p, RFindFrom(p, "/", Len(p)))

\* The non-empty components of a path, as written.
RECURSIVE NonEmpty(_)
NonEmpty(parts) ==
    IF Len(parts) = 0 THEN <<>>
    ELSE (IF Head(parts) = "" THEN <<>> ELSE <<Head(parts)>>)
         \o NonEmpty(Tail(parts))

Components(p) == NonEmpty(Split(p, "/"))

\* os.path.normpath on the components of an absolute path: "." is dropped
\* and ".." takes the component before it away (nothing at the root).
RECURSIVE NormParts(_, _)
NormParts(parts, acc) ==
    IF Len(parts) = 0 THEN acc
    ELSE NormParts(Tail(parts),
             IF Head(parts) = "." THEN acc
             ELSE IF Head(parts) = ".."
             THEN SubSeq(acc, 1, Len(acc) - 1)
             ELSE Append(acc, Head(parts)))

\* [x for x in abspath(p).split('/') if x]: a relative path is taken from
\* the working directory, and the path is normalised.
PathParts(p) ==
    NormParts(Components(IF StartsWith(p, "/") THEN p ELSE PathJoin(Cwd, p)),
              <<>>)

RECURSIVE CommonLen(_, _)
CommonLen(a, b) ==
    IF Len(a) = 0 \/ Len(b) = 0 \/ Head(a) # Head(b) THEN 0
    ELSE 1 + CommonLen(Tail(a), Tail(b))

\* os.path.relpath(path, start)
Relpath(path, start) ==
    LET sl  == PathParts(start)
        pl  == PathParts(path)
        i   == CommonLen(sl, pl)
        rel == [k \in 1..(Len(sl) - i) |-> ".."] \o SubSeq(pl, i + 1, Len(pl))
    IN  IF Len(rel) = 0 THEN "." ELSE JoinStr(rel, "/")

\* os.path.abspath(p), as relpath takes it
Abspath(p) == "/" \o JoinStr(PathParts(p), "/")

(***************************************************************************)
(* Python values.  None is a tagged record: an optional string or list     *)
(* holds its value in val when none is FALSE.                              *)
(***************************************************************************)
None == [none |-> TRUE, val |-> ""]
Str(s) == [none |-> FALSE, val |-> s]
NoList == [none |-> TRUE, val |-> <<>>]
List(l) == [none |-> FALSE, val |-> l]

Range(f) == {f[x] : x \in DOMAIN f}

\* A map with one entry added or replaced.
Put(f, k, v) == [x \in DOMAIN f \cup {k} |-> IF x = k THEN v ELSE f[x]]

\* A map with the given keys removed.
Without(f, ks) == [x \in DOMAIN f \ ks |-> f[x]]

(***************************************************************************)
(* The staging directory of one context (PackagingContext.__init__).       *)
(***************************************************************************)
\* tempfile.mkdtemp(): a fresh private directory.
RootPath == "/tmp/gw"
DataDir == PathJoin(RootPath, "data")
ControlDir == PathJoin(RootPath, "control")

\* The mode of a directory made without an explicit mode (0777 less the umask).
UmaskMode == "umask"
\* The default of the permissions parameters.
DefaultPermissions == "0755"

VARIABLES
    pc,                 \* where the context is: new, the steps of build, built, failed
    pkg,                \* the package description handed to build
    ruleIdx,            \* rules of pkg applied so far
    hasAttrs,           \* the attributes postinst_commands and symlinks exist
    postinst_commands,  \* self.postinst_commands
    symlinks,           \* self.symlinks
    dirMode,            \* directories of the file system: path -> mode
    files,              \* regular files: path -> [content, mode]
    links,              \* symbolic links: path -> target
    archives,           \* ar archives outside the staging directory: path -> members
    applied,            \* history: indices of the rules applied, in order
    failedAt,           \* history: the step that raised ("" when none did)
    ruleCmds,           \* history: commands appended while the rules were applied
    probes,             \* history: what each run of dpkg --print-architecture returned
    lastCall,           \* history: the direct call of a context method just made
    nCalls,             \* direct calls made so far
    packed              \* history: what pack did, [done |-> FALSE] before

vars == <<pc, pkg, ruleIdx, hasAttrs, postinst_commands, symlinks, dirMode, files,
          links, archives, applied, failedAt, ruleCmds, probes, lastCall,
          nCalls, packed>>

(***************************************************************************)
(* The context as a value: what its methods read and change.  ok is FALSE  *)
(* when the call raised; ret is the value returned.                        *)
(***************************************************************************)
Ctx == [dirs |-> dirMode, files |-> files, links |-> links,
        attrs |-> hasAttrs, cmds |-> postinst_commands, syms |-> symlinks,
        ok |-> TRUE, err |-> "", ret |-> ""]

Raise(c, e) == [c EXCEPT !.ok = FALSE, !.err = e]

(***************************************************************************)
(* Path resolution by the kernel, one component at a time.  The maps of    *)
(* the file system are keyed by resolved paths: no ".", no "..", no        *)
(* symbolic link on the way.                                               *)
(***************************************************************************)
\* Symbolic links the kernel follows in one resolution before it gives up.
SymlinkHops == 40

Found(p) == [ok |-> TRUE, path |-> p, err |-> ""]
NotFound(e) == [ok |-> FALSE, path |-> "", err |-> e]

\* The entry name of the directory dir.
Child(dir, name) == IF dir = "/" THEN "/" \o name ELSE dir \o "/" \o name

\* The walk from the directory cur through the components parts.  A
\* component before the last must be a directory or a link that leads to
\* one; the last one need not exist, and is followed when it is a link only
\* if follow is set.  An empty component (a doubled or trailing slash) is
\* taken as ".".
RECURSIVE Namei(_, _, _, _, _)
Namei(c, cur, parts, follow, hops) ==
    IF Len(parts) = 0 THEN Found(cur)
    ELSE IF Head(parts) \in {"", "."}
    THEN Namei(c, cur, Tail(parts), follow, hops)
    ELSE IF Head(parts) = ".."
    THEN Namei(c, Dirname(cur), Tail(parts), follow, hops)
    ELSE LET q    == Child(cur, Head(parts))
             last == Len(Tail(parts)) = 0
         IN  IF q \in DOMAIN c.links /\ (follow \/ ~last)
             THEN IF hops = 0 THEN NotFound("ELOOP")
                  ELSE IF c.links[q] = "" THEN NotFound("ENOENT")
                  ELSE Namei(c, IF StartsWith(c.links[q], "/") THEN "/" ELSE cur,
                             Split(c.links[q], "/") \o Tail(parts), follow,
                             hops - 1)
             ELSE IF last THEN Found(q)
             ELSE IF q \in DOMAIN c.dirs
             THEN Namei(c, q, Tail(parts), follow, hops)
             ELSE IF q \in DOMAIN c.files THEN NotFound("ENOTDIR")
             ELSE NotFound("ENOENT")

\* The place a path names; a relative path starts at the working directory.
Lookup(c, path, follow) ==
    IF path = "" THEN NotFound("ENOENT")
    ELSE Namei(c, IF StartsWith(path, "/") THEN "/" ELSE Cwd, Split(path, "/"),
               follow, SymlinkHops)

Exists(c, p) == p \in DOMAIN c.dirs \/ p \in DOMAIN c.files \/ p \in DOMAIN c.links

\* os.path.isdir(path): a directory, or a symbolic link that leads to one.
IsDir(c, path) == Lookup(c, path, TRUE).path \in DOMAIN c.dirs

\* os.mkdir at the place the path names, an existing directory let be.
MkdirAt(c, at, path) ==
    IF ~c.ok THEN c
    ELSE IF ~at.ok THEN Raise(c, "OSError")
    ELSE IF at.path \in DOMAIN c.dirs THEN c
    ELSE IF at.path \in DOMAIN c.links
    THEN (IF IsDir(c, path) THEN c ELSE Raise(c, "OSError"))
    ELSE IF at.path \in DOMAIN c.files THEN Raise(c, "OSError")
    ELSE [c EXCEPT !.dirs = Put(c.dirs, at.path, UmaskMode)]

\* os.makedirs: every prefix of the path as written, the shortest first.
RECURSIVE MakeDirs(_, _, _)
MakeDirs(c, parts, k) ==
    IF k > Len(parts) THEN c
    ELSE MakeDirs(MkdirAt(c,
                          Lookup(c, "/" \o JoinStr(SubSeq(parts, 1, k), "/"), FALSE),
                          "/" \o JoinStr(SubSeq(parts, 1, k), "/")),
                  parts, k + 1)

\* utilities.mkdirp: make the directory and every missing ancestor.
Mkdirp(c, path) == MakeDirs(c, Components(path), 1)

\* os.chmod at the place the path names
ChmodAt(c, at, permissions) ==
    IF ~c.ok THEN c
    ELSE IF ~at.ok THEN Raise(c, "OSError")
    ELSE IF at.path \in DOMAIN c.dirs
    THEN [c EXCEPT !.dirs[at.path] = permissions]
    ELSE IF at.path \in DOMAIN c.files
    THEN [c EXCEPT !.files[at.path].mode = permissions]
    ELSE Raise(c, "OSError")

\* os.chmod: a symbolic link is followed
Chmod(c, path, permissions) == ChmodAt(c, Lookup(c, path, TRUE), permissions)

\* The loop of _mkdirp: chmod every directory from the data path down.
RECURSIVE ChmodLoop(_, _, _, _)
ChmodLoop(c, abs_subdir_path, subdir_paths, permissions) ==
    IF Len(subdir_paths) = 0 THEN c
    ELSE LET abs == PathJoin(abs_subdir_path, Head(subdir_paths))
         IN  ChmodLoop(Chmod(c, abs, permissions), abs, Tail(subdir_paths),
                       permissions)

\* PackagingContext._mkdirp.  When mkdirp raised, the loop leaves the context
\* as it is: Chmod does nothing on a context that has raised.
MkdirpChmod(c, path, permissions) ==
    ChmodLoop(Mkdirp(c, path), DataDir, Split(Relpath(path, DataDir), "/"),
              permissions)

\* PackagingContext.control_path
control_path(filename) == PathJoin(ControlDir, filename)

\* PackagingContext.data_path
data_path(c, path, permissions) ==
    LET abs_path == PathJoin(DataDir, LStripChar(path, "/"))
        made     == MkdirpChmod(c, Dirname(abs_path), permissions)
    IN  IF made.ok THEN [made EXCEPT !.ret = abs_path] ELSE made

\* PackagingContext.data_dir_path
data_dir_path(c, path, permissions, make_if_missing) ==
    LET abs_path == PathJoin(DataDir, LStripChar(path, "/"))
        made     == IF make_if_missing THEN MkdirpChmod(c, abs_path, permissions)
                    ELSE c
    IN  IF made.ok THEN [made EXCEPT !.ret = abs_path] ELSE made

\* PackagingContext.make_data_dir; user and group are optional strings
make_data_dir(c, path, user, group) ==
    LET made == data_dir_path(c, path, DefaultPermissions, TRUE)
        owner == IF ~group.none THEN user.val \o ":" \o group.val ELSE user.val
    IN  IF ~made.ok \/ user.none THEN made
        ELSE IF ~made.attrs THEN Raise(made, "AttributeError")
        ELSE [made EXCEPT
                 !.cmds = made.cmds \o <<"chown -R " \o owner \o " " \o path>>]

(***************************************************************************)
(* File system calls and the helpers of giftwrap.utilities.                *)
(***************************************************************************)
\* os.symlink at the place the link name names
SymlinkAt(c, target, at) ==
    IF ~c.ok THEN c
    ELSE IF target = "" \/ ~at.ok \/ Exists(c, at.path) THEN Raise(c, "OSError")
    ELSE [c EXCEPT !.links = Put(c.links, at.path, target)]

\* os.symlink(target, linkpath): the link name itself is not followed; an
\* empty target is refused.
Symlink(c, target, linkpath) == SymlinkAt(c, target, Lookup(c, linkpath, FALSE))

\* open(..., 'w').write(content) at the place the path names
WriteAt(c, at, content, permissions) ==
    IF ~c.ok THEN c
    ELSE IF ~at.ok \/ at.path \in DOMAIN c.dirs THEN Raise(c, "IOError")
    ELSE [c EXCEPT !.files = Put(c.files, at.path,
             [content |-> content,
              mode |-> IF ~permissions.none THEN permissions.val
                       ELSE IF at.path \in DOMAIN c.files
                       THEN c.files[at.path].mode
                       ELSE UmaskMode])]

\* open(path, 'w').write(content), with the mode set when one is given; a
\* symbolic link is followed.
WriteFile(c, path, content, permissions) ==
    WriteAt(c, Lookup(c, path, TRUE), content, permissions)

\* utilities.write_to_file
write_to_file(c, content, path) == WriteFile(c, path, content, None)

\* utilities.write_lines_to_file: every line followed by a newline
write_lines_to_file(c, lines, path, permissions) ==
    WriteFile(c, path,
              JoinStr([i \in 1..Len(lines) |-> lines[i] \o "\n"], ""),
              permissions)

\* utilities.string_ending_in_period
string_ending_in_period(s) == IF EndsWith(s, ".") THEN s ELSE s \o "."

(***************************************************************************)
(* Rules.  A rule is a record [kind, path, arg, user, group].              *)
(***************************************************************************)
MkdirRule(path, user, group) ==
    [kind |-> "mkdir", path |-> path, arg |-> "", user |-> user, group |-> group]
FileRule(path, content) ==
    [kind |-> "file", path |-> path, arg |-> content, user |-> None, group |-> None]
SymlinkRule(source, linkname) ==
    [kind |-> "symlink", path |-> source, arg |-> linkname, user |-> None,
     group |-> None]

\* SymlinkRule.apply
SymlinkRuleApply(c, source, linkname) ==
    LET source_dir == data_dir_path(c, Dirname(source), DefaultPermissions, TRUE)
    IN  Symlink(source_dir, PathJoin(source_dir.ret, Basename(source)),
                Basename(linkname))

\* The make-directory rule: context.make_data_dir(path, user, group)
MkdirRuleApply(c, path, user, group) == make_data_dir(c, path, user, group)

\* The place-file rule: the file is written at context.data_path(path)
FileRuleApply(c, path, content) ==
    LET at == data_path(c, path, DefaultPermissions)
    IN  write_to_file(at, content, at.ret)

\* rule.apply(package, context)
RuleApply(c, r) ==
    CASE r.kind = "mkdir"   -> MkdirRuleApply(c, r.path, r.user, r.group)
      [] r.kind = "file"    -> FileRuleApply(c, r.path, r.arg)
      [] r.kind = "symlink" -> SymlinkRuleApply(c, r.path, r.arg)

(***************************************************************************)
(* The control files.                                                      *)
(***************************************************************************)
PostinstHead ==
    <<"#!/bin/sh",
      "# postinst script generated by giftwrap.",
      "set -e",
      "case \"$1\" in",
      "    configure)">>

\* The backquotes around $1 are written as apostrophes: a TLA+ string cannot
\* hold a backquote.
PostinstTail ==
    <<"    ;;",
      "",
      "    abort-upgrade|abort-remove|abort-deconfigure)",
      "    ;;",
      "",
      "    *)",
      "        echo \"postinst called with unknown argument '$1'\" >&2",
      "        exit 1",
      "    ;;",
      "esac",
      "",
      "exit 0">>

PostinstLines_DropLast(commands) ==
    PostinstHead
    \o [i \in 1..(Len(commands) - 1) |-> "        " \o commands[i]]
    \o PostinstTail

\* The lines of _write_postinst
PostinstLines(commands) ==
    PostinstHead
    \o [i \in 1..Len(commands) |-> "        " \o commands[i]]
    \o PostinstTail

\* Whether _write_control runs the probe: architectures is no list, tuple
\* or str.
ProbeNeeded(package) == package.architectures.type \notin {"list", "tuple", "str"}

\* The architectures of _write_control; probe is what run(['dpkg',
\* '--print-architecture'], vital=False) returned, None when it failed.
Architectures(package, probe) ==
    IF ~ProbeNeeded(package) THEN package.architectures.val
    ELSE <<IF ~probe.none THEN Strip(probe.val) ELSE "any">>

Entry(k, v) == <<<<k, v>>>>

\* The dict rules of _write_control for a binary package, in insertion order.
ControlRules(package, architectures) ==
    Entry("Source", package.name)
    \o Entry("Version", package.version)
    \o Entry("Architecture", JoinStr(architectures, " "))
    \o Entry("Maintainer",
             package.maintainer_name \o " <" \o package.maintainer_email \o ">")
    \o Entry("Description",
             string_ending_in_period(package.description) \o "\n "
             \o string_ending_in_period(package.long_description))
    \o (IF ~package.homepage.none THEN Entry("Homepage", package.homepage.val)
        ELSE <<>>)
    \o Entry("Package", package.name)
    \o (IF ~package.section.none THEN Entry("Section", package.section.val)
        ELSE <<>>)
    \o (IF ~package.priority.none THEN Entry("Priority", package.priority.val)
        ELSE <<>>)
    \o (IF ~package.depends.none /\ Len(package.depends.val) > 0
        THEN Entry("Depends", JoinStr(package.depends.val, ", ")) ELSE <<>>)
    \o (IF ~package.conflicts.none /\ Len(package.conflicts.val) > 0
        THEN Entry("Conflicts", JoinStr(package.conflicts.val, ", ")) ELSE <<>>)

\* The slot of a key in the hash table of the dict rules: hash(k) & 31 of
\* CPython 2.7 (64-bit, hashes not randomised).  With its 6 to 11 entries the
\* table has 32 slots, and no two of these keys fall in the same slot.
DictSlot(k) ==
    CASE k = "Maintainer"   -> 4
      [] k = "Description"  -> 5
      [] k = "Package"      -> 7
      [] k = "Section"      -> 10
      [] k = "Priority"     -> 16
      [] k = "Source"       -> 17
      [] k = "Depends"      -> 18
      [] k = "Version"      -> 19
      [] k = "Architecture" -> 21
      [] k = "Conflicts"    -> 24
      [] k = "Homepage"     -> 28

\* for k in rules: a dict is iterated in the order of its hash table.
DictOrder(rules) ==
    LET E == Range(rules)
    IN  [i \in 1..Cardinality(E) |->
            CHOOSE e \in E :
                Cardinality({f \in E : DictSlot(f[1]) < DictSlot(e[1])}) = i - 1]

\* ['%s: %s' % (k, rules[k]) for k in rules]
ControlLines(rules) ==
    LET ordered == DictOrder(rules)
    IN  [i \in 1..Len(ordered) |-> ordered[i][1] \o ": " \o ordered[i][2]]

\* The roots os.walk(top) yields: top, when it is a directory or a link to
\* one, and every directory below it, named from top.  A symbolic link to a
\* directory below top is not walked into.
WalkDirs_TopOnly(c, top) == IF IsDir(c, top) THEN {top} ELSE {}

\* The name from top of the directory d at or below real, the place of top.
WalkRoot(top, real, d) ==
    IF d = real THEN top
    ELSE PathJoin(top, From(d, Len(Child(real, ""))))

\* The roots of a walk from top when top names the place real.
WalkFrom(c, top, real) ==
    {WalkRoot(top, real, d) :
        d \in {e \in DOMAIN c.dirs : e = real \/ StartsWith(e, Child(real, ""))}}

WalkDirs(c, top) ==
    IF IsDir(c, top) THEN WalkFrom(c, top, Lookup(c, top, TRUE).path) ELSE {}

\* The entries of the directory at path that os.walk lists as files: a
\* symbolic link to a directory is listed with the sub-directories; a link
\* to a file and a dangling link are files.
FilesIn(c, path) ==
    {Basename(f) : f \in {g \in DOMAIN c.files \cup DOMAIN c.links :
                              Dirname(g) = path /\ ~IsDir(c, g)}}

\* os.path.join(root, rel_file) for the (root, rel_files) of os.walk(top)
WalkFiles(c, top) ==
    UNION {{PathJoin(root, rel_file) :
               rel_file \in FilesIn(c, Lookup(c, root, TRUE).path)} :
           root \in WalkDirs(c, top)}

\* The conffiles of _write_conffiles, as a set; the order is that of the walk.
Conffiles(c, etc_path) ==
    {"/etc/" \o Relpath(f, etc_path) : f \in WalkFiles(c, etc_path)}

\* The sequences that list every element of a set once.
Orderings(S) ==
    {q \in [1..Cardinality(S) -> S] : \A i, j \in DOMAIN q : i # j => q[i] # q[j]}

\* The loop of _write_symlinks
RECURSIVE WriteSymlinksLoop(_, _)
WriteSymlinksLoop(c, syms) ==
    IF Len(syms) = 0 \/ ~c.ok THEN c
    ELSE WriteSymlinksLoop(
             Symlink(c, Head(syms)[1], PathJoin(DataDir, Head(syms)[2])),
             Tail(syms))

(***************************************************************************)
(* Package descriptions.                                                   *)
(***************************************************************************)
BasePackage ==
    [name |-> "app", version |-> "1.0",
     architectures |-> [type |-> "str", val |-> <<"amd64">>],
     maintainer_name |-> "Ann", maintainer_email |-> "a@x.io",
     description |-> "A tool", long_description |-> "Does things",
     homepage |-> None, section |-> None, priority |-> None,
     depends |-> NoList, conflicts |-> NoList,
     copyright |-> "(c) Ann",
     rules |-> <<>>]

RulePool ==
    {MkdirRule("/opt/app", Str("svc"), Str("svc")),
     MkdirRule("/var/app", Str("root"), None),
     MkdirRule("/etc/sub", None, None),
     FileRule("/etc/app.conf", "k=v"),
     FileRule("/etc/sub/other.conf", "x"),
     SymlinkRule("/opt/app/bin/app", "/usr/bin/app")}

SeqsUpTo(S, n) == UNION {[1..k -> S] : k \in 0..n}

\* Descriptions that differ in their rules, name and version.
RulePackages ==
    {[BasePackage EXCEPT !.rules = rs, !.name = nv[1], !.version = nv[2]] :
        rs \in SeqsUpTo(RulePool, MaxRules),
        nv \in {<<"app", "1.0">>, <<"", "1.0">>, <<"app", "">>}}

\* Values of package.architectures by their Python type: None, a str, a
\* list, a tuple, and supplied values of another type (a unicode string
\* u'amd64', a set).
ArchitectureValues ==
    {[type |-> "none", val |-> <<>>],
     [type |-> "str", val |-> <<"amd64">>],
     [type |-> "list", val |-> <<"amd64", "arm64">>],
     [type |-> "tuple", val |-> <<"i386", "amd64">>],
     [type |-> "list", val |-> <<>>],
     [type |-> "unicode", val |-> <<"amd64">>],
     [type |-> "set", val |-> <<"amd64">>]}

\* Descriptions that differ in their metadata.
ControlPackages ==
    {[BasePackage EXCEPT
         !.architectures = a, !.homepage = h, !.section = s, !.priority = p,
         !.depends = d, !.conflicts = c, !.long_description = l,
         !.rules = <<MkdirRule("/opt/app", Str("svc"), Str("svc"))>>] :
        a \in ArchitectureValues,
        h \in {None, Str(""), Str("http://x.io")},
        s \in {None, Str("utils")},
        p \in {None, Str("optional")},
        d \in {NoList, List(<<>>), List(<<"libc6", "zlib1g">>)},
        c \in {NoList, List(<<"old">>)},
        l \in {"Does things", "Does more."}}

Packages == RulePackages \cup ControlPackages

\* What run(['dpkg', '--print-architecture'], vital=False) returns: the
\* output of the command, or None when it failed or is missing.
ProbeResults == {None, Str("amd64\n"), Str(" armhf \n")}

(***************************************************************************)
(* The state after PackagingContext.__init__.                              *)
(***************************************************************************)
NoCall ==
    [op |-> "none", path |-> "", permissions |-> "", make |-> FALSE,
     user |-> None, group |-> None, ok |-> TRUE, err |-> "",
     attrsBefore |-> FALSE, cmdsBefore |-> <<>>, dirsBefore |-> <<>>]

NotPacked ==
    [done |-> FALSE, destination |-> "", removed |-> {}, stale |-> FALSE,
     control |-> {}, data |-> {}]

InitWith(initialArchives) ==
    /\ pc = "new"
    /\ pkg = BasePackage
    /\ ruleIdx = 0
    /\ hasAttrs = FALSE
    /\ postinst_commands = <<>>
    /\ symlinks = <<>>
    /\ dirMode = [d \in {"/", "/tmp", Cwd, RootPath, DataDir, ControlDir} |->
                     IF d = RootPath THEN "0700"
                     ELSE IF d \in {DataDir, ControlDir} THEN UmaskMode
                     ELSE "system"]
    /\ files = <<>>
    /\ links = <<>>
    /\ archives \in initialArchives
    /\ applied = <<>>
    /\ failedAt = ""
    /\ ruleCmds = <<>>
    /\ probes = <<>>
    /\ lastCall = NoCall
    /\ nCalls = 0
    /\ packed = NotPacked

Init == InitWith({<<>>})

\* The state of the context after a method returned or raised.
Commit(c) ==
    /\ dirMode' = c.dirs
    /\ files' = c.files
    /\ links' = c.links
    /\ hasAttrs' = c.attrs
    /\ postinst_commands' = c.cmds
    /\ symlinks' = c.syms

(***************************************************************************)
(* PackagingContext.build, one action per step.                            *)
(***************************************************************************)
AfterRules(package, n) == IF n < Len(package.rules) THEN "rules" ELSE "control"

Step(c, step, next) ==
    /\ Commit(c)
    /\ pc' = IF c.ok THEN next ELSE "failed"
    /\ failedAt' = IF c.ok THEN failedAt ELSE step

BuildStart(packages) ==
    /\ pc = "new"
    /\ \E p \in packages :
        /\ pkg' = p
        /\ pc' = AfterRules(p, 0)
    /\ hasAttrs' = TRUE
    /\ postinst_commands' = <<>>
    /\ symlinks' = <<>>
    /\ ruleIdx' = 0
    /\ applied' = <<>>
    /\ ruleCmds' = <<>>
    /\ lastCall' = NoCall
    /\ UNCHANGED <<dirMode, files, links, archives, failedAt, probes,
                   nCalls, packed>>

ApplyRule_ContinueOnError ==
    /\ pc = "rules"
    /\ LET i == ruleIdx + 1
           r == pkg.rules[i]
           c == RuleApply(Ctx, r)
       IN  /\ Commit(c)
           /\ pc' = AfterRules(pkg, i)
           /\ failedAt' = IF c.ok THEN failedAt ELSE "rules"
           /\ ruleIdx' = i
           /\ applied' = Append(applied, i)
           /\ ruleCmds' = ruleCmds
                \o SubSeq(c.cmds, Len(postinst_commands) + 1, Len(c.cmds))
    /\ UNCHANGED <<pkg, archives, probes, lastCall, nCalls, packed>>

\* for rule in package.rules: rule.apply(package, self)
ApplyRule ==
    /\ pc = "rules"
    /\ LET i == ruleIdx + 1
           r == pkg.rules[i]
           c == RuleApply(Ctx, r)
       IN  /\ Step(c, "rules", AfterRules(pkg, i))
           /\ ruleIdx' = IF c.ok THEN i ELSE ruleIdx
           /\ applied' = Append(applied, i)
           /\ ruleCmds' = ruleCmds
                \o SubSeq(c.cmds, Len(postinst_commands) + 1, Len(c.cmds))
    /\ UNCHANGED <<pkg, archives, probes, lastCall, nCalls, packed>>

\* self._write_control(package)
WriteControl ==
    /\ pc = "control"
    /\ \E probe \in (IF ProbeNeeded(pkg) THEN ProbeResults ELSE {None}) :
        /\ Step(write_lines_to_file(
                    Ctx,
                    ControlLines(ControlRules(pkg, Architectures(pkg, probe))),
                    control_path("control"), None),
                "control", "postinst")
        /\ probes' = IF ProbeNeeded(pkg) THEN Append(probes, probe) ELSE probes
    /\ UNCHANGED <<pkg, ruleIdx, archives, applied, ruleCmds, lastCall,
                   nCalls, packed>>

\* self._write_postinst(package)
WritePostinst ==
    /\ pc = "postinst"
    /\ Step(write_lines_to_file(Ctx, PostinstLines(postinst_commands),
                                control_path("postinst"), Str("0755")),
            "postinst", "copyright")
    /\ UNCHANGED <<pkg, ruleIdx, archives, applied, ruleCmds, probes,
                   lastCall, nCalls, packed>>

CopyrightPath(package) == "/usr/share/doc/" \o package.name \o "/copyright"

\* self._write_copyright(package)
WriteCopyright ==
    /\ pc = "copyright"
    /\ LET at == data_path(Ctx, CopyrightPath(pkg), DefaultPermissions)
           c  == write_to_file(at, pkg.copyright, at.ret)
       IN  /\ Step(c, "copyright", "conffiles")
    /\ UNCHANGED <<pkg, ruleIdx, archives, applied, ruleCmds, probes,
                   lastCall, nCalls, packed>>

\* self._write_conffiles(package)
WriteConffiles ==
    /\ pc = "conffiles"
    /\ LET etc == data_dir_path(Ctx, "/etc", DefaultPermissions, FALSE)
       IN  \E conffiles \in Orderings(Conffiles(etc, etc.ret)) :
               Step(write_lines_to_file(etc, conffiles,
                                        control_path("conffiles"), None),
                    "conffiles", "symlinks")
    /\ UNCHANGED <<pkg, ruleIdx, archives, applied, ruleCmds, probes,
                   lastCall, nCalls, packed>>

\* self._write_symlinks(package)
WriteSymlinks ==
    /\ pc = "symlinks"
    /\ Step(WriteSymlinksLoop(Ctx, symlinks), "symlinks", "built")
    /\ UNCHANGED <<pkg, ruleIdx, archives, applied, ruleCmds, probes,
                   lastCall, nCalls, packed>>

Build(packages) ==
    \/ BuildStart(packages)
    \/ ApplyRule
    \/ WriteControl
    \/ WritePostinst
    \/ WriteCopyright
    \/ WriteConffiles
    \/ WriteSymlinks

(***************************************************************************)
(* Direct calls of the context's path methods, outside build.              *)
(***************************************************************************)
\* Paths handed to the path methods: plain ones, and ones written with ".",
\* a doubled slash, a trailing slash, a final "/." and "..".
CallPaths ==
    {"/opt/app", "/opt/app/bin/tool", "/etc/app.conf", "/opt/./app//lib/.",
     "/opt/app/", "/../x"}
CallPermissions == {"0755", "0700"}
CallOwners ==
    {<<None, None>>, <<Str("svc"), None>>, <<Str("svc"), Str("adm")>>,
     <<None, Str("adm")>>}

Idle == pc \in {"new", "built"} /\ nCalls < MaxCalls

Called(op, path, permissions, make, user, group, c) ==
    [op |-> op, path |-> path, permissions |-> permissions, make |-> make,
     user |-> user, group |-> group, ok |-> c.ok, err |-> c.err,
     attrsBefore |-> hasAttrs, cmdsBefore |-> postinst_commands,
     dirsBefore |-> dirMode]

CallDataPath ==
    /\ Idle
    /\ \E path \in CallPaths, permissions \in CallPermissions :
        LET c == data_path(Ctx, path, permissions)
        IN  /\ Commit(c)
            /\ lastCall' = Called("data_path", path, permissions, TRUE, None,
                                  None, c)
    /\ nCalls' = nCalls + 1
    /\ UNCHANGED <<pc, pkg, ruleIdx, archives, applied, failedAt, ruleCmds,
                   probes, packed>>

CallDataDirPath ==
    /\ Idle
    /\ \E path \in CallPaths, permissions \in CallPermissions,
          make_if_missing \in BOOLEAN :
        LET c == data_dir_path(Ctx, path, permissions, make_if_missing)
        IN  /\ Commit(c)
            /\ lastCall' = Called("data_dir_path", path, permissions,
                                  make_if_missing, None, None, c)
    /\ nCalls' = nCalls + 1
    /\ UNCHANGED <<pc, pkg, ruleIdx, archives, applied, failedAt, ruleCmds,
                   probes, packed>>

CallMakeDataDir ==
    /\ Idle
    /\ \E path \in CallPaths, owner \in CallOwners :
        LET c == make_data_dir(Ctx, path, owner[1], owner[2])
        IN  /\ Commit(c)
            /\ lastCall' = Called("make_data_dir", path, DefaultPermissions,
                                  TRUE, owner[1], owner[2], c)
    /\ nCalls' = nCalls + 1
    /\ UNCHANGED <<pc, pkg, ruleIdx, archives, applied, failedAt, ruleCmds,
                   probes, packed>>

(***************************************************************************)
(* PackagingContext.pack.                                                  *)
(***************************************************************************)
Member(name, text, entries) == [name |-> name, text |-> text, entries |-> entries]

\* utilities.glob_dir and utilities.targz: every entry below the tree, by its
\* path relative to the tree.
TreeEntries(c, root) ==
    {Relpath(x, root) :
        x \in {y \in DOMAIN c.dirs \cup DOMAIN c.files \cup DOMAIN c.links :
                  StartsWith(y, root \o "/")}}

\* ('rm -f %s' % (destination_path)).split(' ')
RmArgv(destination_path) == Split("rm -f " \o destination_path, " ")

\* The paths rm -f removes: its operands, relative ones taken from the
\* working directory.
RmOperands(argv) ==
    {Abspath(PathJoin(Cwd, argv[i])) : i \in {j \in 3..Len(argv) : argv[j] # ""}}

\* utilities.ar_create: ar adds the members to the archive at the path,
\* making it when none is there: a member of an existing archive is replaced
\* in place by the new member of its name and kept otherwise.
ArCreate(archs, archive_path, members) ==
    LET old   == IF archive_path \in DOMAIN archs THEN archs[archive_path] ELSE <<>>
        named(n) == CHOOSE m \in Range(members) : m.name = n
        names == {m.name : m \in Range(members)}
        kept  == [i \in 1..Len(old) |->
                     IF old[i].name \in names THEN named(old[i].name) ELSE old[i]]
        added == SelectSeq(members,
                           LAMBDA m : m.name \notin {o.name : o \in Range(old)})
    IN  Put(archs, archive_path, kept \o added)

Destinations == {"/out/app.deb", "/out/my app.deb"}

OldArchive ==
    <<Member("debian-binary", "2.0\n", {}), Member("old.tar.gz", "", {"usr"})>>

\* What lies outside the staging directory before pack: nothing, or an
\* archive of an earlier run.
StaleArchives ==
    {<<>>} \cup {Put(<<>>, d, OldArchive) : d \in Destinations \cup {"/out/my"}}

\* The run of lintian that may follow changes nothing of the state here.
Pack ==
    /\ pc \in {"new", "built"}
    /\ ~packed.done
    /\ \E destination_path \in Destinations :
        LET data_tarball_path    == PathJoin(RootPath, "data.tar.gz")
            control_tarball_path == PathJoin(RootPath, "control.tar.gz")
            debian_binary_path   == PathJoin(RootPath, "debian-binary")
            control == TreeEntries(Ctx, ControlDir)
            data    == TreeEntries(Ctx, DataDir)
            tarred  == WriteFile(WriteFile(Ctx, control_tarball_path, "", None),
                                 data_tarball_path, "", None)
            marked  == WriteFile(tarred, debian_binary_path, "2.0\n", None)
            removed == RmOperands(RmArgv(destination_path))
            left    == Without(archives, removed)
        IN  /\ Commit([marked EXCEPT !.files = Without(marked.files, removed)])
            /\ archives' = ArCreate(left, destination_path,
                   <<Member(Basename(debian_binary_path),
                            marked.files[debian_binary_path].content, {}),
                     Member(Basename(control_tarball_path), "", control),
                     Member(Basename(data_tarball_path), "", data)>>)
            /\ packed' = [done |-> TRUE, destination |-> destination_path,
                          removed |-> removed,
                          stale |-> destination_path \in DOMAIN left,
                          control |-> control, data |-> data]
    /\ UNCHANGED <<pc, pkg, ruleIdx, applied, failedAt, ruleCmds, probes,
                   lastCall, nCalls>>

(***************************************************************************)
(* Specifications.                                                         *)
(***************************************************************************)
\* One build of any of the package descriptions.
Next == Build(Packages)

Spec == Init /\ [][Next]_vars

\* Direct calls of the path methods before and after one build.
CtxPackages ==
    {[BasePackage EXCEPT !.rules = <<MkdirRule("/opt/app", Str("svc"), Str("svc"))>>]}

NextCtx ==
    \/ Build(CtxPackages)
    \/ CallDataPath
    \/ CallDataDirPath
    \/ CallMakeDataDir

SpecCtx == Init /\ [][NextCtx]_vars

\* One build and one pack, with or without an earlier archive in the way.
PackPackages == {p \in RulePackages : Len(p.rules) <= 1}

NextPack ==
    \/ Build(PackPackages)
    \/ Pack

SpecPack == InitWith(StaleArchives) /\ [][NextPack]_vars

(***************************************************************************)
(* Reading the written files back.                                         *)
(***************************************************************************)
\* The lines of a text, each ended by a newline.
Lines(content) ==
    LET pieces == Split(content, "\n")
    IN  SubSeq(pieces, 1, Len(pieces) - 1)

Written(name) == control_path(name) \in DOMAIN files

ControlFile(name) == Lines(files[control_path(name)].content)

\* The lines between "configure)" and the ";;" that closes it.
ConfigureBranch(lines) ==
    LET open  == CHOOSE i \in 1..Len(lines) : lines[i] = "    configure)"
        close == CHOOSE j \in (open + 1)..Len(lines) :
                     /\ lines[j] = "    ;;"
                     /\ \A k \in (open + 1)..(j - 1) : lines[k] # "    ;;"
    IN  SubSeq(lines, open + 1, close - 1)

\* The field lines of a control file: a line that starts with a space
\* continues the field above it.
FieldLines(lines) == SelectSeq(lines, LAMBDA l : ~StartsWith(l, " "))
FieldName(line) == SubSeq(line, 1, FindFrom(line, ":", 1) - 1)
FieldValue(line) == From(line, FindFrom(line, ":", 1) + 1)
\* The values of the lines of field f, in file order.
FieldValues(lines, f) ==
    LET of == SelectSeq(FieldLines(lines), LAMBDA l : FieldName(l) = f)
    IN  [i \in 1..Len(of) |-> FieldValue(of[i])]

AfterTheRules == {"control", "postinst", "copyright", "conffiles", "symlinks", "built"}

(***************************************************************************)
(* C1.  After pack(package, destination) the archive at the destination    *)
(* has exactly the members debian-binary, control.tar.gz, data.tar.gz in   *)
(* this order, debian-binary holds "2.0\n", and a file that was at the     *)
(* destination before pack was removed before the archive was made.        *)
(* Fails: rm -f is given the destination split at its spaces.              *)
(***************************************************************************)
C1_ArchiveOfThreeMembers ==
    packed.done =>
        LET members == archives[packed.destination]
        IN  /\ [i \in 1..Len(members) |-> members[i].name]
                  = <<"debian-binary", "control.tar.gz", "data.tar.gz">>
            /\ members[1].text = "2.0\n"
            /\ ~packed.stale

(***************************************************************************)
(* C2.  After build the configure) branch of postinst holds exactly one    *)
(* indented line per command appended while the rules were applied, in the *)
(* order they were appended, and nothing else.                             *)
(***************************************************************************)
C2_ConfigureBranchIsTheCommands ==
    pc = "built" =>
        ConfigureBranch(ControlFile("postinst"))
            = [i \in 1..Len(ruleCmds) |-> "        " \o ruleCmds[i]]

C2_Witness ==
    /\ pc = "built"
    /\ Len(ruleCmds) = 2
    /\ ruleCmds[1] # ruleCmds[2]
    /\ Len(ConfigureBranch(ControlFile("postinst"))) = 2

(***************************************************************************)
(* C3.  build applies the rules one at a time in their declared order,     *)
(* none skipped or repeated; no control file is written and no deferred    *)
(* symlink is made until every rule has been applied; when a rule fails no *)
(* later rule is applied and no control file is written.                   *)
(***************************************************************************)
ControlFileWritten ==
    \/ \E n \in {"control", "postinst", "conffiles"} : Written(n)
    \/ Abspath(PathJoin(DataDir, LStripChar(CopyrightPath(pkg), "/"))) \in DOMAIN files
    \/ \E l \in DOMAIN links : StartsWith(l, DataDir \o "/")

C3_RulesInOrderBeforeControlFiles ==
    /\ applied = [i \in 1..Len(applied) |-> i]
    /\ Len(applied) <= Len(pkg.rules)
    /\ ControlFileWritten =>
          /\ Len(applied) = Len(pkg.rules)
          /\ failedAt # "rules"
    /\ pc \in AfterTheRules => Len(applied) = Len(pkg.rules)
    /\ failedAt = "rules" => pc = "failed" /\ ~ControlFileWritten

C3_Witness ==
    /\ pc = "failed"
    /\ failedAt = "rules"
    /\ Len(pkg.rules) = 3
    /\ applied = <<1, 2>>
    /\ ~ControlFileWritten

(***************************************************************************)
(* C4.  Every call of make_data_dir with an owner makes the directory and  *)
(* appends exactly one command, 'chown -R owner path' or 'chown -R         *)
(* owner:group path'; a call without an owner makes the directory and      *)
(* leaves the commands as they were.                                       *)
(* Fails: before the first build the context has no command list.          *)
(***************************************************************************)
C4_MakeDataDirAppendsOneChown ==
    lastCall.op = "make_data_dir" =>
        /\ Abspath(DataDir \o lastCall.path) \in DOMAIN dirMode
        /\ lastCall.ok
        /\ postinst_commands = lastCall.cmdsBefore \o
              (IF lastCall.user.none THEN <<>>
               ELSE IF lastCall.group.none
               THEN <<"chown -R " \o lastCall.user.val \o " " \o lastCall.path>>
               ELSE <<"chown -R " \o lastCall.user.val \o ":" \o lastCall.group.val
                          \o " " \o lastCall.path>>)

(***************************************************************************)
(* C5.  Applying a symlink rule records its (source, link-target) pair in  *)
(* the context's symlink sequence: after the rules the sequence holds one  *)
(* pair per symlink rule, in rule order, and the finalization step makes   *)
(* each recorded symlink once.                                             *)
(* Fails: SymlinkRule.apply makes the link at once and records nothing.    *)
(***************************************************************************)
SymlinkRulesOf(package) == SelectSeq(package.rules, LAMBDA r : r.kind = "symlink")

C5_SymlinkRulesAreRecorded ==
    pc \in AfterTheRules =>
        /\ Len(symlinks) = Len(SymlinkRulesOf(pkg))
        /\ \A i \in 1..Len(symlinks) :
              /\ Basename(symlinks[i][1]) = Basename(SymlinkRulesOf(pkg)[i].path)
              /\ symlinks[i][2] = SymlinkRulesOf(pkg)[i].arg

(***************************************************************************)
(* C6.  The control file holds one 'Field: value' line for each of         *)
(* Package, Source, Version, Architecture, Maintainer and Description, and *)
(* one for Homepage, Section, Priority, Depends, Conflicts exactly when    *)
(* the value is present (not None and not empty); Depends and Conflicts    *)
(* are joined by ', '; no other field and no field twice.                  *)
(* Fails: an empty homepage, section or priority is written.               *)
(***************************************************************************)
Present(optional) == ~optional.none /\ Len(optional.val) > 0

\* The items of a list value, read back from its rendering.
Items(value) ==
    LET bySpace == Split(value, " ")
    IN  [i \in 1..Len(bySpace) |->
            IF i < Len(bySpace) THEN RStripChar(bySpace[i], ",") ELSE bySpace[i]]

C6_ControlFields ==
    pc = "built" =>
        LET lines  == ControlFile("control")
            one(f) == Len(FieldValues(lines, f)) = 1
            is(f, v) == FieldValues(lines, f) = <<v>>
            opt(f, o) == IF Present(o) THEN is(f, o.val)
                         ELSE FieldValues(lines, f) = <<>>
            list(f, o) == IF Present(o)
                          THEN one(f) /\ Items(FieldValues(lines, f)[1]) = o.val
                          ELSE FieldValues(lines, f) = <<>>
        IN  /\ is("Package", pkg.name)
            /\ is("Source", pkg.name)
            /\ is("Version", pkg.version)
            /\ one("Architecture")
            /\ is("Maintainer", pkg.maintainer_name \o " <" \o pkg.maintainer_email \o ">")
            /\ one("Description")
            /\ opt("Homepage", pkg.homepage)
            /\ opt("Section", pkg.section)
            /\ opt("Priority", pkg.priority)
            /\ list("Depends", pkg.depends)
            /\ list("Conflicts", pkg.conflicts)
            /\ \A i \in 1..Len(FieldLines(lines)) :
                  FieldName(FieldLines(lines)[i]) \in
                      {"Package", "Source", "Version", "Architecture", "Maintainer",
                       "Description", "Homepage", "Section", "Priority", "Depends",
                       "Conflicts"}

(***************************************************************************)
(* C7.  The Architecture field: a string gives itself; a list or tuple     *)
(* gives its elements joined by single spaces in their order; no value and *)
(* a probe with output gives the output without its surrounding            *)
(* whitespace; no value and a failed probe gives 'any'.  The probe runs    *)
(* only when no value is given, and its failure does not fail the build.   *)
(* Fails: a supplied value that is no list, tuple or str (a unicode        *)
(* string, a set) is dropped and the probe runs.                           *)
(***************************************************************************)
\* v is text with the whitespace around it removed.
StrippedOf(v, text) ==
    /\ \E i \in 1..(Len(text) + 1) :
          /\ SubSeq(text, i, i + Len(v) - 1) = v
          /\ \A k \in (1..Len(text)) \ (i..(i + Len(v) - 1)) : IsSpace(Char(text, k))
    /\ v # "" => ~IsSpace(Char(v, 1)) /\ ~IsSpace(Char(v, Len(v)))

C7_ArchitectureField ==
    /\ failedAt # "control"
    /\ Written("control") =>
        LET values == FieldValues(ControlFile("control"), "Architecture")
            given  == pkg.architectures
        IN  /\ Len(values) = 1
            /\ CASE given.type \in {"str", "unicode"} ->
                        values[1] = given.val[1] /\ probes = <<>>
                 [] given.type \in {"list", "tuple"} ->
                        /\ IF given.val = <<>> THEN values[1] = ""
                           ELSE Split(values[1], " ") = given.val
                        /\ probes = <<>>
                 [] given.type = "none" ->
                        /\ Len(probes) = 1
                        /\ IF probes[1].none THEN values[1] = "any"
                           ELSE StrippedOf(values[1], probes[1].val)
                 [] OTHER -> probes = <<>>

(***************************************************************************)
(* C8.  After build conffiles holds exactly one line '/etc/<relative       *)
(* path>' per regular file staged below /etc in the data tree, nested      *)
(* directories included, no other line and no line twice; without an /etc  *)
(* directory the file is empty and writing it does not make /etc.          *)
(***************************************************************************)
EtcDir == DataDir \o "/etc"

StagedBelowEtc ==
    {SubSeq(f, Len(DataDir) + 1, Len(f)) :
        f \in {g \in DOMAIN files : StartsWith(g, EtcDir \o "/")}}

C8_ConffilesListsEtc ==
    /\ pc = "built" =>
        LET lines == ControlFile("conffiles")
        IN  /\ Range(lines) = StagedBelowEtc
            /\ Len(lines) = Cardinality(StagedBelowEtc)
            /\ EtcDir \notin DOMAIN dirMode => lines = <<>>
    /\ (\A i \in 1..Len(pkg.rules) : ~StartsWith(pkg.rules[i].path, "/etc/"))
          => EtcDir \notin DOMAIN dirMode

C8_Witness ==
    /\ pc = "built"
    /\ Range(ControlFile("conffiles")) = {"/etc/app.conf", "/etc/sub/other.conf"}

(***************************************************************************)
(* C9.  A build of a description with an empty name or an empty version is *)
(* rejected before anything is changed: no rule is applied, nothing is     *)
(* created in the staging tree, no control file is written.                *)
(* Fails: build does not look at the name or the version.                  *)
(***************************************************************************)
C9_MalformedDescriptionRejected ==
    (pc # "new" /\ (pkg.name = "" \/ pkg.version = "")) =>
        /\ applied = <<>>
        /\ ~ControlFileWritten
        /\ DOMAIN files = {}
        /\ \A d \in DOMAIN dirMode : ~StartsWith(d, DataDir \o "/")

(***************************************************************************)
(* C10.  After any calls of data_path and data_dir_path every directory    *)
(* between the data root and the resolved path (the ancestors of the leaf  *)
(* for data_path, the directory itself included for data_dir_path) exists  *)
(* in the data tree with the mode of the last call that went through it:   *)
(* a call succeeds, sets its mode on the directories on its way and leaves *)
(* every other directory as it was; data_path does not make the leaf;      *)
(* data_dir_path with make_if_missing=False makes nothing and changes no   *)
(* mode.                                                                   *)
(* Fails: a path with ".." leaves the data tree, and data_path of a path   *)
(* with a trailing slash or a final "/." makes the leaf.                   *)
(***************************************************************************)
InDataTree(d) == StartsWith(d, DataDir \o "/")

\* The path the last call resolved, normalised.
ResolvedPath == Abspath(PathJoin(DataDir, LStripChar(lastCall.path, "/")))

\* The directories from the data root, itself left out, down to d.
DownTo(d) ==
    LET parts == PathParts(d)
    IN  {a \in {"/" \o JoinStr(SubSeq(parts, 1, k), "/") : k \in 1..Len(parts)} :
            InDataTree(a)}

\* The directories the last call has to set: the ancestors of the leaf for
\* data_path, the directory itself too for data_dir_path.
OnTheWay ==
    IF lastCall.op = "data_path" THEN DownTo(Dirname(ResolvedPath))
    ELSE DownTo(ResolvedPath)

C10_LastCallSetsTheModes ==
    /\ (lastCall.op = "data_path" \/ (lastCall.op = "data_dir_path" /\ lastCall.make)) =>
          /\ lastCall.ok
          /\ InDataTree(ResolvedPath)
          /\ \A d \in OnTheWay :
                d \in DOMAIN dirMode /\ dirMode[d] = lastCall.permissions
          /\ \A d \in DOMAIN dirMode \ OnTheWay :
                d \in DOMAIN lastCall.dirsBefore /\ dirMode[d] = lastCall.dirsBefore[d]
    /\ (lastCall.op = "data_dir_path" /\ ~lastCall.make) =>
          dirMode = lastCall.dirsBefore

====
